---- MODULE Spec2Model ----
(***************************************************************************)
(* Realtime chat and access control of the community hub.                  *)
(*                                                                         *)
(* The specifications share the variables below.                           *)
(*   SpecStore  the chat_messages table behind its row-level policies,     *)
(*              called directly by any authenticated identity.             *)
(*   SpecFeed   comments and poll_votes behind their policies and          *)
(*              constraints, called directly and through the feed cards.   *)
(*   SpecBoot   setup-admin invocations and the admin's "create member",   *)
(*              from a project without accounts.                           *)
(*   SpecBootFaults  the same when the store may fail the role insert.     *)
(*   SpecRoles  polls, schedules and user_roles behind the admin policies. *)
(*   SpecView   the ChatPanel view of one signed-in user (Me), its own     *)
(*              writes and its change-feed; no other writer.               *)
(*   SpecSend   the input row of that view across a sign-out.              *)
(*   SpecNotify that view while the permission prompt is answered and      *)
(*              messages of the user and of others arrive.                 *)
(*   SpecRefetch that view with its two channels while other members write *)
(*              and a new member joins.                                    *)
(*   SpecLifecycle the two channels of that view across channel switches,  *)
(*              permission changes, sign-out and sign-in, unmount.         *)
(*   SpecResolver the routing stamp and the channel filter over the rows   *)
(*              the user and the other members send.                       *)
(*   SpecIdle   that view left alone after mount: only responses and       *)
(*              acknowledgements arrive, each eventually.                  *)
(*   SpecResend that view from a state with a failed send in its list.     *)
(*   Spec       all of the above and the rest of the system: the other     *)
(*              users' ChatPanels, new members, the members channel.       *)
(***************************************************************************)
EXTENDS Integers, Sequences, FiniteSets, TLC

\* ------------------------------------------------------------------ bounds
MaxApiRows == 1      \* rows the direct API calls of SpecStore may insert
MaxStore == 2        \* rows in chat_messages under Spec and SpecView
MaxSends == 1        \* accepted sends of the view
MaxPending == 2      \* distinct message fetches in flight
MaxRows == 2         \* rows in comments and poll_votes together

\* --------------------------------------------------------------- constants
Null == "null"                         \* SQL NULL / JS null
Group == "group"                       \* activeChat value 'group'
Me == "u1"                             \* the identity the view runs for
Users == {"u1", "u2", "u3"}            \* auth.users
InitialProfiles == <<"u1", "u2">>      \* profiles present at start
PeerContent == <<"x">>                 \* what the other users type
ClockReadings == {0, 1}                \* values Date.now() returns
Drafts == {<<>>, <<" ", " ">>, <<" ", "a", " ">>}   \* input values
Admin == "admin"                       \* app_role 'admin'
Member == "member"                     \* app_role 'member'
ScheduleIds == {"s1"}                  \* ids the store gives to schedules
PollIds == {"p1"}                      \* ids the store gives to polls
Bodies == {"b1", "b2"}                 \* content of a schedule or poll
Options == {0, 1}                      \* option_index of a vote
Usernames == {"admin", "Admin", "bob"} \* names typed into the user form
Invocations == {"i1", "i2"}            \* requests to setup-admin

VARIABLES
    store,          \* chat_messages, in commit order
    profiles,       \* profiles table (ids), in insert order
    user,           \* useAuth().user of the view: Me or Null
    activeChat,     \* useState('group')
    showChatList,   \* useState(true)
    messages,       \* useState<Message[]>([])
    newMessage,     \* useState(''), as a sequence of characters
    members,        \* useState([]), ids of the other profiles
    pending,        \* the distinct fetchMessages calls in flight
    memPending,     \* the distinct fetchMembers calls in flight
    sub,            \* state of the two realtime channels of the effect
    feed,           \* chat_messages INSERT events delivered, not yet handled
    pfeed,          \* profiles INSERT events delivered, not yet handled
    now,            \* Date.now() as last read by the view
    toasts,         \* the toast() calls of the view
    sends,          \* history: the inserts issued by sendMessage
    permission,     \* useNotifications().permission
    notified,       \* history: the sendNotification calls, in order
    opened,         \* realtime channels created and not removed, per scope
    mounted,        \* the ChatPanel is rendered
    lastOp,         \* history: the last API call, send or applied fetch
    authUsers,      \* auth.users: id, email and username metadata
    roles,          \* user_roles: the (user_id, role) pairs
    schedules,      \* schedules: id and content
    polls,          \* polls: id and content
    comments,       \* comments, in commit order
    votes,          \* poll_votes, in commit order
    boot            \* position of each invocation of setup-admin

\* the tables and processes outside the chat
dbVars == <<authUsers, roles, schedules, polls, comments, votes, boot>>

\* notifications and the channel registry of the view
noteVars == <<permission, notified, opened, mounted>>

vars == <<store, profiles, user, activeChat, showChatList, messages, newMessage,
          members, pending, memPending, sub, feed, pfeed, now, toasts, sends,
          lastOp, dbVars, noteVars>>

viewVars == <<user, activeChat, showChatList, messages, newMessage, members,
              pending, memPending, sub, feed, pfeed, now, toasts, sends,
              noteVars>>

\* ------------------------------------------------------------ pure helpers
RECURSIVE TrimStart(_)
TrimStart(s) ==
    IF s # <<>> /\ Head(s) = " " THEN TrimStart(Tail(s)) ELSE s

RECURSIVE TrimEnd(_)
TrimEnd(s) ==
    IF s # <<>> /\ s[Len(s)] = " " THEN TrimEnd(SubSeq(s, 1, Len(s) - 1)) ELSE s

\* String.prototype.trim
Trim(s) == TrimEnd(TrimStart(s))

\* x || 'user'
OrUser(x) == IF x = Null THEN "user" ELSE x

\* ------------------------------------------------------------ the store
\* gen_random_uuid(): the n-th row gets the n-th fresh uuid
ServerId(n) == <<"uuid", n>>

\* 'temp-' + Date.now()
TempId(t) == <<"temp", t>>

IsTempId(id) == id[1] = "temp"

\* the id of a row the store has not assigned one to
NoId == <<"none", 0>>

\* a read policy USING (true): every authenticated identity reads every row
SelectPolicyOpen(uid, m) == uid # Null

\* a write policy WITH CHECK (true): every authenticated identity may insert
InsertPolicyOpen(uid, row) == uid # Null

\* POLICY "Users can see group messages" ... FOR SELECT TO authenticated
SelectPolicy(uid, m) ==
    /\ uid # Null
    /\ \/ m.is_group_message = TRUE
       \/ m.sender_id = uid
       \/ m.receiver_id = uid

\* POLICY "Users can send messages" ... FOR INSERT TO authenticated
InsertPolicy(uid, row) ==
    /\ uid # Null
    /\ uid = row.sender_id

\* the row as stored: id and created_at by default, the rest as given
StoredRow(row, n) ==
    [id |-> ServerId(n), content |-> row.content, sender_id |-> row.sender_id,
     receiver_id |-> row.receiver_id, is_group_message |-> row.is_group_message,
     message_type |-> row.message_type, created_at |-> n]

\* select * from chat_messages as uid, over the first n rows
StoreSelect(uid, n) ==
    LET Vis(m) == SelectPolicy(uid, m)
    IN  SelectSeq(SubSeq(store, 1, n), Vis)

\* ------------------------------------------------------ Channel Resolver
\* a filter that keeps, of a direct conversation, only what the peer sent
ChannelFilterIncoming(chat, uid, m) ==
    IF chat = Group
    THEN m.is_group_message = TRUE
    ELSE /\ m.is_group_message = FALSE
         /\ m.sender_id = chat /\ m.receiver_id = uid

\* the filter fetchMessages adds to its query
ChannelFilter(chat, uid, m) ==
    IF chat = Group
    THEN m.is_group_message = TRUE
    ELSE /\ m.is_group_message = FALSE
         /\ \/ m.sender_id = uid /\ m.receiver_id = chat
            \/ m.sender_id = chat /\ m.receiver_id = uid

\* a stamp without receiver
StampNoReceiver(chat) == Null

\* the routing fields sendMessage stamps
StampReceiver(chat) == IF chat = Group THEN Null ELSE chat

StampGroup(chat) == chat = Group

\* the rows a fetchMessages of `chat` by uid gets from the first n rows
FetchResult(chat, uid, n) ==
    LET InChan(m) == ChannelFilter(chat, uid, m)
        rows == SelectSeq(StoreSelect(uid, n), InChan)
    IN  [i \in 1..Len(rows) |->
            [rows[i] EXCEPT !.message_type = OrUser(rows[i].message_type)]]

\* a test that passes only the rows addressed to the user
RelevantIfReceiver(m, uid) == m.receiver_id = uid

\* the test of the INSERT handler before it re-fetches
EventRelevant(m, uid) ==
    \/ m.is_group_message = TRUE
    \/ m.sender_id = uid
    \/ m.receiver_id = uid

\* ------------------------------------------------------------ identities
\* String.prototype.toLowerCase, on the names of Usernames
ToLowerCase(name) == IF name = "Admin" THEN "admin" ELSE name

\* `${username.toLowerCase().trim()}@matchschedule.local`
EmailOf(username) == <<ToLowerCase(username), "@matchschedule.local">>

\* 'admin@matchschedule.local'
AdminEmail == <<"admin", "@matchschedule.local">>

\* 'admin@gamezone.com'
LegacyAdminEmail == <<"admin", "@gamezone.com">>

\* raw_user_meta_data ->> 'username' of the account with this id: ids are
\* fresh uuids, one per account, and are named here after the username the
\* account is created with
UsernameOf(id) ==
    CASE id = "u1" -> "admin"
      [] id = "u2" -> "bob"
      [] OTHER -> "Admin"

\* the accounts at start: the seeded admin and one member
InitialUsers ==
    {[id |-> "u1", email |-> AdminEmail, username |-> "admin"],
     [id |-> "u2", email |-> EmailOf("bob"), username |-> "bob"]}

\* their role rows
InitialRoles ==
    {[user_id |-> "u1", role |-> Admin], [user_id |-> "u2", role |-> Member]}

\* has_role(_user_id, _role)
has_role(user_id, role) ==
    \E r \in roles : r.user_id = user_id /\ r.role = role

\* ---------------------------------------------------------------- Init
Init ==
    /\ store = <<>>
    /\ profiles = InitialProfiles
    /\ user = Me
    /\ activeChat = Group
    /\ showChatList = TRUE
    /\ messages = <<>>
    /\ newMessage = <<>>
    /\ members = {}
    /\ pending = {[chan |-> Group, lo |-> 0, trig |-> 0]}
    /\ memPending = {[lo |-> Len(InitialProfiles)]}
    /\ sub = [messages |-> "subscribing", members |-> "subscribing"]
    /\ feed = <<>>
    /\ pfeed = 0
    /\ now = 0
    /\ toasts = {[title |-> "Enable Notifications", variant |-> "default"]}
    /\ sends = <<>>
    /\ lastOp = [op |-> "none"]
    /\ authUsers = InitialUsers
    /\ roles = InitialRoles
    /\ schedules = {[id |-> "s1", body |-> "b1"]}
    /\ polls = {[id |-> "p1", body |-> "b1"]}
    /\ comments = <<>>
    /\ votes = <<>>
    /\ boot = [i \in Invocations |-> [pc |-> "done", uid |-> Null]]
    /\ permission = "default"
    /\ notified = <<>>
    /\ opened = [messages |-> 1, members |-> 1]
    /\ mounted = TRUE

\* --------------------------------------------- the store, called directly
ApiRows ==
    [content : {PeerContent}, sender_id : Users, receiver_id : Users \cup {Null},
     is_group_message : BOOLEAN, message_type : {"user", "system"}]

\* change-feed: an INSERT event for row n reaches the view's open channel
Deliver(n) == IF sub.messages = "active" THEN Append(feed, n) ELSE feed

\* insert(chat_messages, row) by an authenticated identity
ApiInsert(actor, row) ==
    /\ InsertPolicy(actor, row) => Len(store) < MaxApiRows
    /\ IF InsertPolicy(actor, row)
       THEN store' = Append(store, StoredRow(row, Len(store) + 1))
       ELSE store' = store
    /\ lastOp' = [op |-> "insert", actor |-> actor, sender |-> row.sender_id,
                  ok |-> store' # store, n |-> Len(store')]
    /\ UNCHANGED <<profiles, viewVars>>
    /\ UNCHANGED dbVars

\* query(chat_messages) by an authenticated identity, no filter
ApiSelect(actor) ==
    /\ store # <<>>
    /\ lastOp' = [op |-> "select", actor |-> actor, n |-> Len(store),
                  rows |-> StoreSelect(actor, Len(store))]
    /\ UNCHANGED <<store, profiles, viewVars>>
    /\ UNCHANGED dbVars

\* a policy that lets the sender of a message change or remove it
SenderWrites(uid, row) == uid = row.sender_id

\* chat_messages has row-level security enabled and no policy FOR UPDATE or
\* FOR DELETE: no row passes for either command
MessageWritePolicy(uid, row) == FALSE

\* the content an update sets
EditedContent == <<"y">>

\* the rows without the i-th
WithoutRow(rows, i) == SubSeq(rows, 1, i - 1) \o SubSeq(rows, i + 1, Len(rows))

\* update(chat_messages) of the content of the i-th row by an authenticated
\* identity
ApiUpdate(actor, i) ==
    /\ i \in 1..Len(store)
    /\ LET done == MessageWritePolicy(actor, store[i])
       IN  /\ store' = IF done
                        THEN [store EXCEPT ![i].content = EditedContent]
                        ELSE store
           /\ lastOp' = [op |-> "msg_update", actor |-> actor,
                         sender |-> store[i].sender_id, ok |-> done,
                         n |-> Len(store')]
    /\ UNCHANGED <<profiles, viewVars>>
    /\ UNCHANGED dbVars

\* delete(chat_messages) of the i-th row by an authenticated identity
ApiDelete(actor, i) ==
    /\ i \in 1..Len(store)
    /\ LET done == MessageWritePolicy(actor, store[i])
       IN  /\ store' = IF done THEN WithoutRow(store, i) ELSE store
           /\ lastOp' = [op |-> "msg_delete", actor |-> actor,
                         sender |-> store[i].sender_id, ok |-> done,
                         n |-> Len(store')]
    /\ UNCHANGED <<profiles, viewVars>>
    /\ UNCHANGED dbVars

\* send_join_message(): NEW.username || ' joined the chat'
JoinContent(username) == <<username, " joined the chat">>

\* a join message that is not a group message
JoinRowPrivate(id) ==
    [content |-> JoinContent(UsernameOf(id)), sender_id |-> id,
     receiver_id |-> Null, is_group_message |-> FALSE,
     message_type |-> "system"]

\* the row send_join_message inserts for the new profile
JoinRow(id) ==
    [content |-> JoinContent(UsernameOf(id)), sender_id |-> id,
     receiver_id |-> Null,
     is_group_message |-> TRUE, message_type |-> "system"]

\* a profiles row is inserted (handle_new_user), firing on_profile_created_send_join
ProfileInsert(id) ==
    /\ id \notin {profiles[i] : i \in 1..Len(profiles)}
    /\ Len(store) < MaxStore
    /\ profiles' = Append(profiles, id)
    /\ store' = Append(store, StoredRow(JoinRow(id), Len(store) + 1))
    /\ feed' = Deliver(Len(store) + 1)
    /\ pfeed' = IF sub.members = "active" THEN pfeed + 1 ELSE pfeed
    /\ UNCHANGED <<user, activeChat, showChatList, messages, newMessage, members,
                   pending, memPending, sub, now, toasts, sends, lastOp>>
    /\ UNCHANGED <<dbVars, noteVars>>

NextStore ==
    \/ \E actor \in Users, row \in ApiRows : ApiInsert(actor, row)
    \/ \E actor \in Users : ApiSelect(actor)
    \/ \E id \in Users : ProfileInsert(id)
    \/ \E actor \in Users, i \in 1..MaxStore : ApiUpdate(actor, i)
    \/ \E actor \in Users, i \in 1..MaxStore : ApiDelete(actor, i)

SpecStore == Init /\ [][NextStore]_vars

\* C1: a query by an authenticated identity U returns a stored message M if
\* and only if M is a group message, or U is its sender, or U is its receiver;
\* it never returns a direct message between two other identities.
C1_ReadIffGroupSenderReceiver ==
    lastOp.op = "select" =>
        \A i \in 1..lastOp.n :
            (\E j \in 1..Len(lastOp.rows) : lastOp.rows[j] = store[i])
            <=> \/ store[i].is_group_message = TRUE
                \/ store[i].sender_id = lastOp.actor
                \/ store[i].receiver_id = lastOp.actor

\* a query has left out a direct message between two other identities
C1_Witness ==
    /\ lastOp.op = "select"
    /\ \E i \in 1..lastOp.n :
           /\ store[i].is_group_message = FALSE
           /\ store[i].receiver_id # Null
           /\ lastOp.actor \notin {store[i].sender_id, store[i].receiver_id}
           /\ \A j \in 1..Len(lastOp.rows) : lastOp.rows[j] # store[i]

\* C2: an insert issued by identity A is accepted if and only if the row's
\* sender_id is A, and the row an accepted insert stores names A as sender.
C2_InsertIffSenderIsActor ==
    lastOp.op = "insert" =>
        /\ lastOp.ok <=> lastOp.sender = lastOp.actor
        /\ lastOp.ok => /\ lastOp.n \in 1..Len(store)
                        /\ store[lastOp.n].sender_id = lastOp.actor

\* an insert in another identity's name has been rejected
C2_Witness ==
    /\ lastOp.op = "insert"
    /\ lastOp.sender # lastOp.actor
    /\ ~lastOp.ok

\* C10: every stored message is either a group message without receiver or
\* a direct message with a receiver, never both unset and never both set.
C10_ExactlyOneRouting ==
    \A i \in 1..Len(store) :
        \/ store[i].is_group_message = TRUE /\ store[i].receiver_id = Null
        \/ store[i].is_group_message = FALSE /\ store[i].receiver_id # Null

\* C18: a step that inserts a profiles row appends exactly one message, whose
\* content is the username followed by ' joined the chat', whose type is
\* system and which is a group message; every identity's query returns it
\* and it passes the filter of the group channel.
C18_JoinMessageOncePerProfile ==
    [][profiles' # profiles =>
         LET id == profiles'[Len(profiles')]
             m == store'[Len(store')]
         IN  /\ Len(profiles') = Len(profiles) + 1
             /\ Len(store') = Len(store) + 1
             /\ SubSeq(store', 1, Len(store)) = store
             /\ m.content = <<UsernameOf(id), " joined the chat">>
             /\ m.sender_id = id
             /\ m.message_type = "system"
             /\ m.is_group_message = TRUE
             /\ \A u \in Users :
                    /\ SelectPolicy(u, m)
                    /\ ChannelFilter(Group, u, m)
                    /\ EventRelevant(m, u)]_vars

\* a profile has been inserted and its join message is the last stored row
C18_Witness ==
    /\ Len(profiles) > Len(InitialProfiles)
    /\ store # <<>>
    /\ store[Len(store)].content =
           <<UsernameOf(profiles[Len(profiles)]), " joined the chat">>
    /\ store[Len(store)].message_type = "system"

\* C19: no row stored by a client insert has message_type system.
C19_NoClientSystemMessage ==
    (lastOp.op = "insert" /\ lastOp.ok) =>
        store[lastOp.n].message_type # "system"

\* C20: every step keeps each stored message where it is and as it is, and
\* an update or delete sent by any identity is refused and changes no row.
C20_StoreAppendOnly ==
    [][/\ \A i \in 1..Len(store) :
             /\ i <= Len(store')
             /\ store'[i] = store[i]
       /\ (lastOp'.op \in {"msg_update", "msg_delete"} /\ profiles' = profiles)
             => /\ ~lastOp'.ok
                /\ store' = store]_vars

\* the delete of a message has been refused to its own sender, or to an admin
C20_Witness ==
    /\ lastOp.op = "msg_delete"
    /\ ~lastOp.ok
    /\ lastOp.actor = lastOp.sender \/ has_role(lastOp.actor, Admin)
    /\ lastOp.n = Len(store)
    /\ store # <<>>


\* ------------------------------------------------------------ ChatPanel
ProfileIds(n) == {profiles[i] : i \in 1..n}

\* a fetchMessages call as issued: its activeChat, the rows committed so far,
\* and (history) the row whose INSERT event issued it, 0 for the effect.
\* Calls in flight that cannot be told apart are kept once; a call that
\* resolves may be followed by an equal one.
FetchReq(chat, trig) == [chan |-> chat, lo |-> Len(store), trig |-> trig]

\* the calls in flight after issuing one more
Issue(fp, req) == fp \cup {req}

\* room for one more call, within the bound
CanIssue(fp, req) == Cardinality(Issue(fp, req)) <= MaxPending

\* a fetchMembers call as issued: the profiles committed so far. Calls in
\* flight that cannot be told apart are kept once; a call that resolves may
\* be followed by an equal one.
MemberReq == [lo |-> Len(profiles)]

\* a cleanup that removes the messages channel only
CleanupMessagesOnly(o) ==
    [o EXCEPT !.messages = IF sub.messages # "none" THEN @ - 1 ELSE @]

\* the cleanup returned by the last run of the effect, lines 136-139: it
\* removes the two channels that run created; a run without user returned
\* before creating any and left no cleanup
Cleanup(o) ==
    [scope \in DOMAIN o |-> IF sub[scope] # "none" THEN o[scope] - 1
                            ELSE o[scope]]

\* the channels after the body of the effect created its two, lines 105-134
Subscribed(o) == [scope \in DOMAIN o |-> o[scope] + 1]

\* the effect of lines 99-140 after a render with user u and activeChat chat:
\* the cleanup of the previous run, then the body. fm and fp are the fetches
\* in flight to which the body adds its own.
Effect(u, chat, fm, fp) ==
    /\ feed' = <<>>
    /\ pfeed' = 0
    /\ IF u = Null
       THEN /\ sub' = [messages |-> "none", members |-> "none"]
            /\ opened' = Cleanup(opened)
            /\ memPending' = fm
            /\ pending' = fp
       ELSE /\ CanIssue(fp, FetchReq(chat, 0))
            /\ sub' = [messages |-> "subscribing", members |-> "subscribing"]
            /\ opened' = Subscribed(Cleanup(opened))
            /\ memPending' = fm \cup {MemberReq}
            /\ pending' = Issue(fp, FetchReq(chat, 0))

\* the auth context drops the session: user becomes null
SignOut ==
    /\ user # Null
    /\ user' = Null
    /\ IF mounted
       THEN Effect(Null, activeChat, memPending, pending)
       ELSE UNCHANGED <<sub, feed, pfeed, memPending, pending, opened>>
    /\ UNCHANGED <<store, profiles, activeChat, showChatList, messages, newMessage,
                   members, now, toasts, sends, lastOp>>
    /\ UNCHANGED <<dbVars, permission, notified, mounted>>

\* the auth context gets a session: user becomes the signed-in identity
SignIn ==
    /\ user = Null
    /\ user' = Me
    /\ IF mounted
       THEN Effect(Me, activeChat, memPending, pending)
       ELSE UNCHANGED <<sub, feed, pfeed, memPending, pending, opened>>
    /\ UNCHANGED <<store, profiles, activeChat, showChatList, messages, newMessage,
                   members, now, toasts, sends, lastOp>>
    /\ UNCHANGED <<dbVars, permission, notified, mounted>>

\* the server acknowledges the subscribe() of a channel
SubscribeAck(scope) ==
    /\ sub[scope] = "subscribing"
    /\ sub' = [sub EXCEPT ![scope] = "active"]
    /\ UNCHANGED <<store, profiles, user, activeChat, showChatList, messages,
                   newMessage, members, pending, memPending, feed, pfeed, now,
                   toasts, sends, lastOp>>
    /\ UNCHANGED <<dbVars, noteVars>>

\* fetchMembers call r resolves with data: setMembers(data), a new array, so
\* the effect runs again
MembersResolve(r) ==
    /\ r \in memPending
    /\ \E n \in r.lo..Len(profiles) :
           members' = ProfileIds(n) \ {Me}
    /\ Effect(user, activeChat, memPending \ {r}, pending)
    /\ UNCHANGED <<store, profiles, user, activeChat, showChatList, messages,
                   newMessage, now, toasts, sends, lastOp>>
    /\ UNCHANGED <<dbVars, permission, notified, mounted>>

\* a fetch whose result is merged with the provisional entries of the list
FetchResolveMerge(f) ==
    /\ f \in pending
    /\ \E n \in f.lo..Len(store) :
           LET Provisional(m) == IsTempId(m.id)
           IN  messages' = FetchResult(f.chan, Me, n)
                               \o SelectSeq(messages, Provisional)
    /\ pending' = pending \ {f}
    /\ lastOp' = [op |-> "fetch", trig |-> f.trig]
    /\ UNCHANGED <<store, profiles, user, activeChat, showChatList, newMessage,
                   members, memPending, sub, feed, pfeed, now, toasts, sends>>
    /\ UNCHANGED <<dbVars, noteVars>>

\* fetchMessages call f resolves with data: setMessages(messagesWithProfiles)
FetchResolve(f) ==
    /\ f \in pending
    /\ \E n \in f.lo..Len(store) :
           messages' = FetchResult(f.chan, Me, n)
    /\ pending' = pending \ {f}
    /\ lastOp' = [op |-> "fetch", trig |-> f.trig]
    /\ UNCHANGED <<store, profiles, user, activeChat, showChatList, newMessage,
                   members, memPending, sub, feed, pfeed, now, toasts, sends>>
    /\ UNCHANGED <<dbVars, noteVars>>

\* fetchMessages call f resolves without data
FetchFail(f) ==
    /\ f \in pending
    /\ pending' = pending \ {f}
    /\ UNCHANGED <<store, profiles, user, activeChat, showChatList, messages,
                   newMessage, members, memPending, sub, feed, pfeed, now,
                   toasts, sends, lastOp>>
    /\ UNCHANGED <<dbVars, noteVars>>

\* members.find(m => m.id === newMsg.sender_id)?.username || 'Someone'
SenderName(id) == IF id \in members THEN UsernameOf(id) ELSE "Someone"

\* the body of the notification for row m, line 120
NotificationBody(m) ==
    IF m.message_type = "system" THEN m.content
    ELSE <<SenderName(m.sender_id), ": ">> \o m.content

\* a test that lets the user's own messages notify
NotifyAnySender(m, uid) == permission = "granted"

\* the test of line 117
ShouldNotify(m, uid) == m.sender_id # uid /\ permission = "granted"

\* the chat_messages INSERT handler of messagesChannel
MessageEvent ==
    /\ feed # <<>>
    /\ feed' = Tail(feed)
    /\ LET m == store[Head(feed)]
       IN  notified' = IF EventRelevant(m, user) /\ ShouldNotify(m, user)
                       THEN Append(notified, [row |-> Head(feed),
                                              body |-> NotificationBody(m)])
                       ELSE notified
    /\ IF EventRelevant(store[Head(feed)], user)
       THEN /\ CanIssue(pending, FetchReq(activeChat, Head(feed)))
            /\ pending' = Issue(pending, FetchReq(activeChat, Head(feed)))
       ELSE pending' = pending
    /\ UNCHANGED <<store, profiles, user, activeChat, showChatList, messages,
                   newMessage, members, memPending, sub, pfeed, now, toasts,
                   sends, lastOp>>
    /\ UNCHANGED <<dbVars, permission, opened, mounted>>

\* the profiles INSERT handler of profilesChannel
ProfileEvent ==
    /\ pfeed > 0
    /\ pfeed' = pfeed - 1
    /\ memPending' = memPending \cup {MemberReq}
    /\ lastOp' = [op |-> "profile_event"]
    /\ UNCHANGED <<store, profiles, user, activeChat, showChatList, messages,
                   newMessage, members, pending, sub, feed, now, toasts, sends>>
    /\ UNCHANGED <<dbVars, noteVars>>

\* requestPermission(), from the button of the toast of line 91: the browser
\* answers granted or denied, permission changes and the effect runs again
RequestPermission(result) ==
    /\ mounted
    /\ permission = "default"
    /\ permission' = result
    /\ Effect(user, activeChat, memPending, pending)
    /\ UNCHANGED <<store, profiles, user, activeChat, showChatList, messages,
                   newMessage, members, now, toasts, sends, lastOp, notified,
                   mounted>>
    /\ UNCHANGED dbVars

\* the toast of the mount effect, lines 84-97
PermissionToast ==
    IF permission = "default"
    THEN {[title |-> "Enable Notifications", variant |-> "default"]}
    ELSE {}

\* the ChatPanel is rendered anew: fresh state, then the effects
Mount ==
    /\ ~mounted
    /\ mounted' = TRUE
    /\ activeChat' = Group
    /\ showChatList' = TRUE
    /\ messages' = <<>>
    /\ newMessage' = <<>>
    /\ members' = {}
    /\ toasts' = toasts \cup PermissionToast
    /\ Effect(user, Group, {}, {})
    /\ UNCHANGED <<store, profiles, user, now, sends, lastOp, permission,
                   notified>>
    /\ UNCHANGED dbVars

\* the ChatPanel leaves the screen: the cleanup of the effect runs, the state
\* is dropped and the calls in flight resolve into nothing
Unmount ==
    /\ mounted
    /\ mounted' = FALSE
    /\ sub' = [messages |-> "none", members |-> "none"]
    /\ opened' = Cleanup(opened)
    /\ feed' = <<>>
    /\ pfeed' = 0
    /\ pending' = {}
    /\ memPending' = {}
    /\ lastOp' = [op |-> "unmount"]
    /\ UNCHANGED <<store, profiles, user, activeChat, showChatList, messages,
                   newMessage, members, now, toasts, sends, permission,
                   notified>>
    /\ UNCHANGED dbVars

\* openChat(chatId), from a button of the chat list
OpenChat(chatId) ==
    /\ mounted
    /\ showChatList
    /\ chatId \in {Group} \cup members
    /\ activeChat' = chatId
    /\ showChatList' = FALSE
    /\ IF chatId # activeChat
       THEN Effect(user, chatId, memPending, pending)
       ELSE UNCHANGED <<sub, feed, pfeed, memPending, pending, opened>>
    /\ UNCHANGED <<store, profiles, user, messages, newMessage, members, now,
                   toasts, sends, lastOp>>
    /\ UNCHANGED <<dbVars, permission, notified, mounted>>

\* goBackToList()
GoBackToList ==
    /\ mounted
    /\ ~showChatList
    /\ showChatList' = TRUE
    /\ UNCHANGED <<store, profiles, user, activeChat, messages, newMessage,
                   members, pending, memPending, sub, feed, pfeed, now, toasts,
                   sends, lastOp>>
    /\ UNCHANGED <<dbVars, noteVars>>

\* onChange of the input: setNewMessage(e.target.value)
TypeText(text) ==
    /\ mounted
    /\ ~showChatList
    /\ text # newMessage
    /\ newMessage' = text
    /\ UNCHANGED <<store, profiles, user, activeChat, showChatList, messages,
                   members, pending, memPending, sub, feed, pfeed, now, toasts,
                   sends, lastOp>>
    /\ UNCHANGED <<dbVars, noteVars>>

\* a guard without trim(): !newMessage || !user
SendRefusedNoTrim == newMessage = <<>> \/ user = Null

\* the guard of sendMessage: !newMessage.trim() || !user
SendRefused == Trim(newMessage) = <<>> \/ user = Null

\* an optimistic message that carries the draft as typed
OptimisticMessageRaw(t) ==
    [id |-> TempId(t), content |-> newMessage, sender_id |-> user,
     receiver_id |-> StampReceiver(activeChat),
     is_group_message |-> StampGroup(activeChat),
     message_type |-> "user", created_at |-> t]

\* optimisticMessage, when Date.now() reads t
OptimisticMessage(t) ==
    [id |-> TempId(t), content |-> Trim(newMessage), sender_id |-> user,
     receiver_id |-> StampReceiver(activeChat),
     is_group_message |-> StampGroup(activeChat),
     message_type |-> "user", created_at |-> t]

\* the row sendMessage inserts
InsertRow(t) ==
    [content |-> OptimisticMessage(t).content, sender_id |-> user,
     receiver_id |-> StampReceiver(activeChat),
     is_group_message |-> StampGroup(activeChat), message_type |-> "user"]

\* sendMessage(), from Enter or the send button, when Date.now() reads t
SendMessage(t) ==
    /\ mounted
    /\ ~showChatList
    /\ t >= now
    /\ IF SendRefused
       THEN /\ t = now
            /\ lastOp' = [op |-> "send", ok |-> FALSE]
            /\ UNCHANGED <<messages, newMessage, sends, now>>
       ELSE /\ Len(sends) < MaxSends
            /\ now' = t
            /\ messages' = Append(messages, OptimisticMessage(t))
            /\ newMessage' = <<>>
            /\ sends' = Append(sends, [temp |-> TempId(t), row |-> InsertRow(t),
                                       state |-> "sent", id |-> NoId])
            /\ lastOp' = [op |-> "send", ok |-> TRUE]
    /\ UNCHANGED <<store, profiles, user, activeChat, showChatList, members,
                   pending, memPending, sub, feed, pfeed, toasts>>
    /\ UNCHANGED <<dbVars, noteVars>>

\* the insert of send k reaches the store, which sees `actor` as auth.uid():
\* the sender, or nobody when the request carries no valid session. The
\* result is awaited and dropped.
WriteArrive(k, actor) ==
    /\ k \in 1..Len(sends)
    /\ sends[k].state = "sent"
    /\ actor \in {sends[k].row.sender_id, Null}
    /\ IF InsertPolicy(actor, sends[k].row)
       THEN /\ Len(store) < MaxStore
            /\ store' = Append(store, StoredRow(sends[k].row, Len(store) + 1))
            /\ feed' = Deliver(Len(store) + 1)
            /\ sends' = [sends EXCEPT ![k].state = "stored",
                                      ![k].id = ServerId(Len(store) + 1)]
       ELSE /\ sends' = [sends EXCEPT ![k].state = "policy"]
            /\ UNCHANGED <<store, feed>>
    /\ UNCHANGED <<profiles, user, activeChat, showChatList, messages, newMessage,
                   members, pending, memPending, sub, pfeed, now, toasts, lastOp>>
    /\ UNCHANGED <<dbVars, noteVars>>

\* a failed insert that takes its optimistic entry back out of the list
WriteLostRollback(k) ==
    /\ k \in 1..Len(sends)
    /\ sends[k].state = "sent"
    /\ sends' = [sends EXCEPT ![k].state = "network"]
    /\ LET Other(m) == m.id # sends[k].temp
       IN  messages' = SelectSeq(messages, Other)
    /\ UNCHANGED <<store, profiles, user, activeChat, showChatList, newMessage,
                   members, pending, memPending, sub, feed, pfeed, now, toasts,
                   lastOp>>
    /\ UNCHANGED <<dbVars, noteVars>>

\* the insert of send k does not reach the store (network error); the result
\* is awaited and dropped
WriteLost(k) ==
    /\ k \in 1..Len(sends)
    /\ sends[k].state = "sent"
    /\ sends' = [sends EXCEPT ![k].state = "network"]
    /\ UNCHANGED <<store, profiles, user, activeChat, showChatList, messages,
                   newMessage, members, pending, memPending, sub, feed, pfeed,
                   now, toasts, lastOp>>
    /\ UNCHANGED <<dbVars, noteVars>>

\* the ChatPanel of another user sends to `target` and the store commits it
PeerSend(peer, target) ==
    /\ peer \in ProfileIds(Len(profiles)) \ {Me}
    /\ target \in ({Group} \cup ProfileIds(Len(profiles))) \ {peer}
    /\ Len(store) < MaxStore
    /\ LET row == [content |-> PeerContent, sender_id |-> peer,
                   receiver_id |-> StampReceiver(target),
                   is_group_message |-> StampGroup(target),
                   message_type |-> "user"]
       IN  /\ InsertPolicy(peer, row)
           /\ store' = Append(store, StoredRow(row, Len(store) + 1))
    /\ feed' = Deliver(Len(store) + 1)
    /\ UNCHANGED <<profiles, user, activeChat, showChatList, messages, newMessage,
                   members, pending, memPending, sub, pfeed, now, toasts, sends,
                   lastOp>>
    /\ UNCHANGED <<dbVars, noteVars>>

\* ------------------------------------------------- comments and poll_votes
\* a constraint that lets every row pass
NoCheck(row) == TRUE

\* a policy that lets every authenticated identity pass
AnyAuthenticated(uid, row) == uid # Null

\* CONSTRAINT comments_check
comments_check(row) ==
    \/ row.schedule_id # Null /\ row.poll_id = Null
    \/ row.schedule_id = Null /\ row.poll_id # Null

\* comments_schedule_id_fkey, comments_poll_id_fkey
CommentFk(row) ==
    /\ row.schedule_id # Null => \E x \in schedules : x.id = row.schedule_id
    /\ row.poll_id # Null => \E x \in polls : x.id = row.poll_id

\* POLICY "Users can create comments" ... FOR INSERT TO authenticated
CommentInsertPolicy(uid, row) ==
    /\ uid # Null
    /\ uid = row.user_id

\* POLICY "Users can delete own comments" ... FOR DELETE TO authenticated
CommentDeletePolicy(uid, row) ==
    /\ uid # Null
    /\ uid = row.user_id

\* the rows an identity may try to insert into comments
CommentRows ==
    [content : {PeerContent}, user_id : Users,
     schedule_id : ScheduleIds \cup {Null}, poll_id : PollIds \cup {Null}]

\* room for one more row in comments or poll_votes, within the bound
RowsLeft == Len(comments) + Len(votes) < MaxRows

\* the store takes the comment: policy, check constraint and foreign keys
CommentAccepted(actor, row) ==
    /\ CommentInsertPolicy(actor, row)
    /\ comments_check(row)
    /\ CommentFk(row)

\* the error toast of the feed cards
ErrorToast == [title |-> "Error", variant |-> "destructive"]

\* insert(comments, row) by an identity
CommentInsert(actor, row) ==
    /\ CommentAccepted(actor, row) => RowsLeft
    /\ comments' = IF CommentAccepted(actor, row)
                   THEN Append(comments, row) ELSE comments
    /\ lastOp' = [op |-> "comment_insert", actor |-> actor, row |-> row,
                  ok |-> comments' # comments]
    /\ UNCHANGED <<store, profiles, viewVars, authUsers, roles, schedules, polls,
                   votes, boot>>

\* delete(comments) of the i-th row by an identity
CommentDelete(actor, i) ==
    /\ i \in 1..Len(comments)
    /\ comments' = IF CommentDeletePolicy(actor, comments[i])
                   THEN SubSeq(comments, 1, i - 1) \o
                        SubSeq(comments, i + 1, Len(comments))
                   ELSE comments
    /\ lastOp' = [op |-> "comment_delete", actor |-> actor,
                  owner |-> comments[i].user_id, ok |-> comments' # comments]
    /\ UNCHANGED <<store, profiles, viewVars, authUsers, roles, schedules, polls,
                   votes, boot>>

\* handleAddComment of a feed card of user u, with `draft` in its input: the
\* insert, and the toast when the store answers with an error
AddComment(u, row, draft, opname) ==
    /\ ~(Trim(draft) = <<>> \/ u = Null)
    /\ CommentAccepted(u, row) => RowsLeft
    /\ comments' = IF CommentAccepted(u, row)
                   THEN Append(comments, row) ELSE comments
    /\ toasts' = IF CommentAccepted(u, row)
                 THEN toasts ELSE toasts \cup {ErrorToast}
    /\ lastOp' = [op |-> opname, actor |-> u, row |-> row,
                  ok |-> comments' # comments]
    /\ UNCHANGED <<noteVars, store, profiles, user, activeChat, showChatList, messages,
                   newMessage, members, pending, memPending, sub, feed, pfeed,
                   now, sends, authUsers, roles, schedules, polls, votes, boot>>

\* PollCard.handleAddComment
PollAddComment(u, pollId, draft) ==
    AddComment(u, [content |-> Trim(draft), user_id |-> u, schedule_id |-> Null,
                   poll_id |-> pollId], draft, "poll_comment")

\* ScheduleCard.handleAddComment
ScheduleAddComment(u, scheduleId, draft) ==
    AddComment(u, [content |-> Trim(draft), user_id |-> u,
                   schedule_id |-> scheduleId, poll_id |-> Null],
               draft, "schedule_comment")

\* row-level security enabled and no policy for the command: no row passes
NoPolicy(uid, row) == FALSE

\* update(comments) of the content of the i-th row by an identity
CommentUpdate(actor, i, content) ==
    /\ i \in 1..Len(comments)
    /\ comments' = IF NoPolicy(actor, comments[i])
                   THEN [comments EXCEPT ![i].content = content] ELSE comments
    /\ lastOp' = [op |-> "comment_update", actor |-> actor,
                  owner |-> comments[i].user_id,
                  ok |-> NoPolicy(actor, comments[i])]
    /\ UNCHANGED <<store, profiles, viewVars, authUsers, roles, schedules, polls,
                   votes, boot>>

\* a uniqueness constraint that lets every row pass
NoUnique(rows, row) == TRUE

\* CONSTRAINT poll_votes_poll_id_user_id_key UNIQUE (poll_id, user_id): `row`
\* beside the rows `rows`
poll_votes_poll_id_user_id_key(rows, row) ==
    \A j \in 1..Len(rows) :
        ~(rows[j].poll_id = row.poll_id /\ rows[j].user_id = row.user_id)

\* poll_votes_poll_id_fkey
VoteFk(row) == \E x \in polls : x.id = row.poll_id

\* POLICY "Users can vote" ... FOR INSERT TO authenticated
VoteInsertPolicy(uid, row) ==
    /\ uid # Null
    /\ uid = row.user_id

\* POLICY "Users can change their vote" ... FOR UPDATE TO authenticated
VoteUpdatePolicy(uid, row) ==
    /\ uid # Null
    /\ uid = row.user_id

\* the rows an identity may try to write into poll_votes
VoteRows == [poll_id : PollIds, user_id : Users, option_index : Options]

\* the store takes the vote: policy, foreign key and uniqueness
VoteAccepted(actor, row) ==
    /\ VoteInsertPolicy(actor, row)
    /\ VoteFk(row)
    /\ poll_votes_poll_id_user_id_key(votes, row)

\* a vote of the same user on the same poll is stored
HasVoted(row) ==
    \E j \in 1..Len(votes) :
        votes[j].poll_id = row.poll_id /\ votes[j].user_id = row.user_id

\* insert(poll_votes, row) by an identity
VoteInsert(actor, row) ==
    /\ VoteAccepted(actor, row) => RowsLeft
    /\ votes' = IF VoteAccepted(actor, row) THEN Append(votes, row) ELSE votes
    /\ lastOp' = [op |-> "vote_insert", actor |-> actor, row |-> row,
                  dup |-> HasVoted(row), ok |-> votes' # votes]
    /\ UNCHANGED <<store, profiles, viewVars, authUsers, roles, schedules, polls,
                   comments, boot>>

\* the rows of poll_votes without the i-th
VotesBut(i) == SubSeq(votes, 1, i - 1) \o SubSeq(votes, i + 1, Len(votes))

\* update(poll_votes) of the i-th row to `row` by an identity: USING on the
\* old row, the same expression as WITH CHECK on the new one
VoteUpdate(actor, i, row) ==
    /\ i \in 1..Len(votes)
    /\ row # votes[i]
    /\ LET done == /\ VoteUpdatePolicy(actor, votes[i])
                    /\ VoteUpdatePolicy(actor, row)
                    /\ VoteFk(row)
                    /\ poll_votes_poll_id_user_id_key(VotesBut(i), row)
       IN  /\ votes' = IF done THEN [votes EXCEPT ![i] = row] ELSE votes
           /\ lastOp' = [op |-> "vote_update", actor |-> actor,
                         owner |-> votes[i].user_id, to |-> row.user_id,
                         before |-> Len(votes), ok |-> done]
    /\ UNCHANGED <<store, profiles, viewVars, authUsers, roles, schedules, polls,
                   comments, boot>>

\* delete(poll_votes) of the i-th row by an identity
VoteDelete(actor, i) ==
    /\ i \in 1..Len(votes)
    /\ votes' = IF NoPolicy(actor, votes[i]) THEN VotesBut(i) ELSE votes
    /\ lastOp' = [op |-> "vote_delete", actor |-> actor,
                  owner |-> votes[i].user_id, ok |-> NoPolicy(actor, votes[i])]
    /\ UNCHANGED <<store, profiles, viewVars, authUsers, roles, schedules, polls,
                   comments, boot>>

\* PollCard.handleVote(optionIndex) of user u on the card of pollId; `seen`
\* says whether the votes the card was rendered with hold a vote of u
HandleVote(u, pollId, optionIndex, seen) ==
    LET row == [poll_id |-> pollId, user_id |-> u, option_index |-> optionIndex]
    IN  /\ seen => HasVoted(row)
        /\ ~(u = Null \/ seen)
        /\ VoteAccepted(u, row) => RowsLeft
        /\ votes' = IF VoteAccepted(u, row) THEN Append(votes, row) ELSE votes
        /\ toasts' = IF VoteAccepted(u, row)
                     THEN toasts ELSE toasts \cup {ErrorToast}
        /\ lastOp' = [op |-> "handle_vote", actor |-> u, row |-> row,
                      dup |-> HasVoted(row), ok |-> votes' # votes]
        /\ UNCHANGED <<noteVars, store, profiles, user, activeChat, showChatList, messages,
                       newMessage, members, pending, memPending, sub, feed,
                       pfeed, now, sends, authUsers, roles, schedules, polls,
                       comments, boot>>

\* the feed: comments and votes of every identity, by handler and directly
NextFeed ==
    \/ \E actor \in Users, row \in CommentRows : CommentInsert(actor, row)
    \/ \E actor \in Users, i \in 1..MaxRows : CommentDelete(actor, i)
    \/ \E actor \in Users, i \in 1..MaxRows : CommentUpdate(actor, i, PeerContent)
    \/ \E u \in Users, p \in PollIds, draft \in Drafts : PollAddComment(u, p, draft)
    \/ \E u \in Users, x \in ScheduleIds, draft \in Drafts :
           ScheduleAddComment(u, x, draft)
    \/ \E actor \in Users, row \in VoteRows : VoteInsert(actor, row)
    \/ \E actor \in Users, i \in 1..MaxRows, row \in VoteRows :
           VoteUpdate(actor, i, row)
    \/ \E actor \in Users, i \in 1..MaxRows : VoteDelete(actor, i)
    \/ \E u \in Users, p \in PollIds, o \in Options, seen \in BOOLEAN :
           HandleVote(u, p, o, seen)

SpecFeed == Init /\ [][NextFeed]_vars

\* C11: every stored comment has exactly one of schedule_id and poll_id, an
\* insert with both or with neither is rejected, and the inserts of the two
\* feed cards carry exactly one of them.
C11_CommentsHaveOneParent ==
    /\ \A i \in 1..Len(comments) :
           (comments[i].schedule_id = Null) # (comments[i].poll_id = Null)
    /\ lastOp.op = "comment_insert" =>
           ((lastOp.row.schedule_id = Null) = (lastOp.row.poll_id = Null)
            => ~lastOp.ok)
    /\ lastOp.op \in {"poll_comment", "schedule_comment"} =>
           (lastOp.row.schedule_id = Null) # (lastOp.row.poll_id = Null)

\* the author's own comment with both parents set has been rejected
C11_Witness ==
    /\ lastOp.op = "comment_insert"
    /\ lastOp.actor = lastOp.row.user_id
    /\ lastOp.row.schedule_id # Null
    /\ lastOp.row.poll_id # Null
    /\ ~lastOp.ok

\* C13: poll_votes holds at most one row per (poll, user); an insert beside
\* an existing vote of the same user on the same poll is rejected, and the
\* card reports it; an update by the owner that keeps the owner succeeds and
\* leaves the number of rows as it was.
C13_OneVotePerPollAndUser ==
    /\ \A i, j \in 1..Len(votes) :
           i # j => ~(/\ votes[i].poll_id = votes[j].poll_id
                      /\ votes[i].user_id = votes[j].user_id)
    /\ lastOp.op \in {"vote_insert", "handle_vote"} =>
           (lastOp.dup => ~lastOp.ok)
    /\ lastOp.op = "handle_vote" =>
           (lastOp.dup => ErrorToast \in toasts)
    /\ lastOp.op = "vote_update" =>
           (lastOp.actor = lastOp.owner /\ lastOp.to = lastOp.owner
            => lastOp.ok /\ Len(votes) = lastOp.before)

\* a card rendered before the user's vote was stored has sent a second insert,
\* which was rejected
C13_Witness ==
    /\ lastOp.op = "handle_vote"
    /\ lastOp.dup
    /\ ~lastOp.ok
    /\ \E i \in 1..Len(votes) : votes[i].user_id = lastOp.actor

\* C14: a comment or vote insert is accepted only for the actor's own row,
\* and is accepted for it when the table constraints hold; a comment delete
\* is accepted iff the actor is the author; a vote update is accepted only
\* on the actor's own row, and is accepted when the row stays the actor's;
\* no comment is updated and no vote deleted.
C14_OnlyOwnerWrites ==
    /\ lastOp.op \in {"comment_insert", "poll_comment", "schedule_comment"} =>
           /\ lastOp.ok => lastOp.row.user_id = lastOp.actor
           /\ (/\ lastOp.row.user_id = lastOp.actor
               /\ (lastOp.row.schedule_id = Null) # (lastOp.row.poll_id = Null))
              => lastOp.ok
    /\ lastOp.op = "comment_delete" =>
           (lastOp.ok <=> lastOp.owner = lastOp.actor)
    /\ lastOp.op \in {"vote_insert", "handle_vote"} =>
           /\ lastOp.ok => lastOp.row.user_id = lastOp.actor
           /\ (lastOp.row.user_id = lastOp.actor /\ ~lastOp.dup) => lastOp.ok
    /\ lastOp.op = "vote_update" =>
           /\ lastOp.ok => lastOp.owner = lastOp.actor /\ lastOp.to = lastOp.actor
           /\ (lastOp.owner = lastOp.actor /\ lastOp.to = lastOp.actor)
              => lastOp.ok
    /\ lastOp.op \in {"comment_update", "vote_delete"} => ~lastOp.ok

\* the delete of another identity's comment has been refused
C14_Witness ==
    /\ lastOp.op = "comment_delete"
    /\ lastOp.owner # lastOp.actor
    /\ ~lastOp.ok
    /\ \E i \in 1..Len(comments) : comments[i].user_id = lastOp.owner

\* -------------------------------------------- setup-admin and "create member"
\* the admin account of a project set up under the old email domain
LegacyUsers ==
    {[id |-> "u1", email |-> LegacyAdminEmail, username |-> "admin"]}

\* a deployed project before any setup-admin call: no account at all, or the
\* admin of the old email domain; nobody is signed in
InitDeployed ==
    /\ store = <<>>
    /\ \/ authUsers = {} /\ roles = {} /\ profiles = <<>>
       \/ /\ authUsers = LegacyUsers
          /\ roles = {[user_id |-> "u1", role |-> Admin]}
          /\ profiles = <<"u1">>
    /\ user = Null
    /\ activeChat = Group
    /\ showChatList = TRUE
    /\ messages = <<>>
    /\ newMessage = <<>>
    /\ members = {}
    /\ pending = {}
    /\ memPending = {}
    /\ sub = [messages |-> "none", members |-> "none"]
    /\ feed = <<>>
    /\ pfeed = 0
    /\ now = 0
    /\ toasts = {}
    /\ sends = <<>>
    /\ lastOp = [op |-> "none"]
    /\ schedules = {}
    /\ polls = {}
    /\ comments = <<>>
    /\ votes = <<>>
    /\ boot = [i \in Invocations |-> [pc |-> "idle", uid |-> Null]]
    /\ permission = "default"
    /\ notified = <<>>
    /\ opened = [messages |-> 0, members |-> 0]
    /\ mounted = FALSE

\* a check that never finds the admin
AdminNeverExists(users) == FALSE

\* existingUsers.users.some(u => u.email === ... || u.email === ...)
adminExists(users) ==
    \E u \in users : u.email = AdminEmail \/ u.email = LegacyAdminEmail

\* auth.users: email is unique
EmailTaken(email) == \E u \in authUsers : u.email = email

\* profiles_username_key UNIQUE (username), over the accounts' profiles
UsernameTaken(username) ==
    \E i \in 1..Len(profiles) : UsernameOf(profiles[i]) = username

\* the id given to the account created with this username
NewId(username) == CHOOSE id \in Users : UsernameOf(id) = username

\* an account can be created: its email and username are free
CanCreate(username, email) ==
    /\ ~EmailTaken(email)
    /\ ~UsernameTaken(username)

\* the account row is inserted; handle_new_user() inserts its profile and
\* on_profile_created_send_join the join message
CreateAccount(id, username, email) ==
    /\ authUsers' = authUsers \cup
           {[id |-> id, email |-> email, username |-> username]}
    /\ profiles' = Append(profiles, id)
    /\ store' = Append(store, StoredRow(JoinRow(id), Len(store) + 1))
    /\ feed' = Deliver(Len(store) + 1)
    /\ pfeed' = IF sub.members = "active" THEN pfeed + 1 ELSE pfeed

\* user_roles_user_id_role_key and the foreign key of user_id into the
\* accounts `users`
RoleConstraints(users, rows, row) ==
    /\ row \notin rows
    /\ \E u \in users : u.id = row.user_id

\* setup-admin, lines 32-42: listUsers() and the early return
BootList(i) ==
    /\ boot[i].pc = "idle"
    /\ boot' = [boot EXCEPT ![i].pc =
                    IF adminExists(authUsers) THEN "done" ELSE "absent"]
    /\ lastOp' = [op |-> "boot_list", i |-> i]
    /\ UNCHANGED <<store, profiles, viewVars, authUsers, roles, schedules,
                   polls, comments, votes>>

\* setup-admin, lines 45-54: auth.admin.createUser, an error is thrown and
\* answered with status 500
BootCreate(i) ==
    /\ boot[i].pc = "absent"
    /\ CanCreate("admin", AdminEmail) => Len(store) < MaxStore
    /\ IF CanCreate("admin", AdminEmail)
       THEN /\ CreateAccount(NewId("admin"), "admin", AdminEmail)
            /\ boot' = [boot EXCEPT ![i] =
                            [pc |-> "created", uid |-> NewId("admin")]]
       ELSE /\ boot' = [boot EXCEPT ![i].pc = "done"]
            /\ UNCHANGED <<store, profiles, feed, pfeed, authUsers>>
    /\ lastOp' = [op |-> "boot_create", i |-> i]
    /\ UNCHANGED <<noteVars, user, activeChat, showChatList, messages, newMessage,
                   members, pending, memPending, sub, now, toasts, sends,
                   roles, schedules, polls, comments, votes>>

\* setup-admin, lines 56-73: the profile insert (the row is there already:
\* a primary-key error, not looked at) and the admin role insert, both with
\* the service-role key, which no policy applies to
BootInserts(i) ==
    /\ boot[i].pc = "created"
    /\ LET row == [user_id |-> boot[i].uid, role |-> Admin]
       IN  roles' = IF RoleConstraints(authUsers, roles, row)
                    THEN roles \cup {row}
                    ELSE roles
    /\ boot' = [boot EXCEPT ![i].pc = "done"]
    /\ lastOp' = [op |-> "boot_inserts", i |-> i]
    /\ UNCHANGED <<store, profiles, viewVars, authUsers, schedules, polls,
                   comments, votes>>

\* a policy that lets every authenticated identity write
ManageOpen(uid) == uid # Null

\* a role policy that asks for a session and nothing else
AnySession(uid) == uid # Null

\* POLICY "Admins can manage roles" ... TO authenticated
\* USING (has_role(auth.uid(), 'admin'))
ManageRolesPolicy(uid) ==
    /\ uid # Null
    /\ has_role(uid, Admin)

\* toast({ title: "User Created!", ... })
CreatedToast == [title |-> "User Created!", variant |-> "default"]

\* handleCreateUser in the browser of `actor`, who sees the panel as an admin.
\* An empty field is refused with a toast. signUp creates the account; where
\* the project confirms emails on sign-up (autoConfirm) it also replaces the
\* browser's session by the new account's, and the role insert that follows
\* is sent under that session. The result of the role insert is not looked at.
CreateUser(actor, username, autoConfirm) ==
    /\ has_role(actor, Admin)
    /\ LET email == EmailOf(username)
           can == username # "" /\ CanCreate(username, email)
           id == NewId(username)
           session == IF can /\ autoConfirm THEN id ELSE actor
           row == [user_id |-> id, role |-> Member]
       IN  /\ can => Len(store) < MaxStore
           /\ IF can
              THEN /\ CreateAccount(id, username, email)
                   /\ roles' = IF /\ ManageRolesPolicy(session)
                                  /\ RoleConstraints(authUsers', roles, row)
                               THEN roles \cup {row}
                               ELSE roles
                   /\ toasts' = toasts \cup {CreatedToast}
              ELSE /\ toasts' = toasts \cup {ErrorToast}
                   /\ UNCHANGED <<store, profiles, feed, pfeed, authUsers,
                                  roles>>
           /\ lastOp' = [op |-> "create_user", actor |-> actor,
                         name |-> username, session |-> session, ok |-> can]
    /\ UNCHANGED <<noteVars, user, activeChat, showChatList, messages, newMessage,
                   members, pending, memPending, sub, now, sends, schedules,
                   polls, comments, votes, boot>>

NextBoot ==
    \/ \E i \in Invocations : BootList(i)
    \/ \E i \in Invocations : BootCreate(i)
    \/ \E i \in Invocations : BootInserts(i)
    \/ \E actor \in Users, username \in Usernames \cup {""},
          autoConfirm \in BOOLEAN :
           CreateUser(actor, username, autoConfirm)

SpecBoot == InitDeployed /\ [][NextBoot]_vars

C17_ExactlyOneRole ==
    (\A i \in Invocations : boot[i].pc # "created") =>
        \A u \in authUsers :
            Cardinality({r \in roles : r.user_id = u.id}) = 1

\* ------------------------------------------ schedules, polls and user_roles
\* the identities that can authenticate
Accounts == {u.id : u \in authUsers}

\* POLICY "Admins can manage polls" ... TO authenticated
\* USING (has_role(auth.uid(), 'admin')): every command, old and new row
ManagePollsPolicy(uid) ==
    /\ uid # Null
    /\ has_role(uid, Admin)

\* POLICY "Admins can manage schedules" ... TO authenticated
\* USING (has_role(auth.uid(), 'admin'))
ManageSchedulesPolicy(uid) ==
    /\ uid # Null
    /\ has_role(uid, Admin)

\* the rows a client can send for polls and for schedules
CatalogRows(ids) == [id : ids, body : Bodies]

\* the primary keys in use
Ids(rows) == {x.id : x \in rows}

\* the rows after an update of the body of row id
WithBody(rows, id, body) ==
    {IF x.id = id THEN [x EXCEPT !.body = body] ELSE x : x \in rows}

\* comments_poll_id_fkey ... ON DELETE CASCADE
CommentsWithoutPoll(id) ==
    LET Keep(c) == c.poll_id # id IN SelectSeq(comments, Keep)

\* comments_schedule_id_fkey ... ON DELETE CASCADE
CommentsWithoutSchedule(id) ==
    LET Keep(c) == c.schedule_id # id IN SelectSeq(comments, Keep)

\* poll_votes_poll_id_fkey ... ON DELETE CASCADE
VotesWithoutPoll(id) ==
    LET Keep(v) == v.poll_id # id IN SelectSeq(votes, Keep)

\* toast({ title: "Success", ... })
SuccessToast == [title |-> "Success", variant |-> "default"]

\* insert(polls, row) by an authenticated identity
PollInsert(actor, row) ==
    LET free == row.id \notin Ids(polls)
        done == ManagePollsPolicy(actor) /\ free
    IN  /\ polls' = IF done THEN polls \cup {row} ELSE polls
        /\ lastOp' = [op |-> "insert", table |-> "polls", actor |-> actor,
                      valid |-> free, ok |-> done]
        /\ UNCHANGED <<store, profiles, viewVars, authUsers, roles, schedules,
                       comments, votes, boot>>

\* update(polls) of the row id by an authenticated identity
PollUpdate(actor, id, body) ==
    LET done == ManagePollsPolicy(actor)
    IN  /\ id \in Ids(polls)
        /\ polls' = IF done THEN WithBody(polls, id, body) ELSE polls
        /\ lastOp' = [op |-> "update", table |-> "polls", actor |-> actor,
                      valid |-> TRUE, ok |-> done]
        /\ UNCHANGED <<store, profiles, viewVars, authUsers, roles, schedules,
                       comments, votes, boot>>

\* delete(polls) of the row id by an authenticated identity; its comments and
\* votes go with it
PollDelete(actor, id) ==
    LET done == ManagePollsPolicy(actor)
    IN  /\ id \in Ids(polls)
        /\ polls' = IF done THEN {x \in polls : x.id # id} ELSE polls
        /\ comments' = IF done THEN CommentsWithoutPoll(id) ELSE comments
        /\ votes' = IF done THEN VotesWithoutPoll(id) ELSE votes
        /\ lastOp' = [op |-> "delete", table |-> "polls", actor |-> actor,
                      valid |-> TRUE, ok |-> done]
        /\ UNCHANGED <<store, profiles, viewVars, authUsers, roles, schedules,
                       boot>>

\* insert(schedules, row) by an authenticated identity
ScheduleInsert(actor, row) ==
    LET free == row.id \notin Ids(schedules)
        done == ManageSchedulesPolicy(actor) /\ free
    IN  /\ schedules' = IF done THEN schedules \cup {row} ELSE schedules
        /\ lastOp' = [op |-> "insert", table |-> "schedules", actor |-> actor,
                      valid |-> free, ok |-> done]
        /\ UNCHANGED <<store, profiles, viewVars, authUsers, roles, polls,
                       comments, votes, boot>>

\* update(schedules) of the row id by an authenticated identity
ScheduleUpdate(actor, id, body) ==
    LET done == ManageSchedulesPolicy(actor)
    IN  /\ id \in Ids(schedules)
        /\ schedules' = IF done THEN WithBody(schedules, id, body)
                        ELSE schedules
        /\ lastOp' = [op |-> "update", table |-> "schedules", actor |-> actor,
                      valid |-> TRUE, ok |-> done]
        /\ UNCHANGED <<store, profiles, viewVars, authUsers, roles, polls,
                       comments, votes, boot>>

\* delete(schedules) of the row id by an authenticated identity; its comments
\* go with it
ScheduleDelete(actor, id) ==
    LET done == ManageSchedulesPolicy(actor)
    IN  /\ id \in Ids(schedules)
        /\ schedules' = IF done THEN {x \in schedules : x.id # id}
                        ELSE schedules
        /\ comments' = IF done THEN CommentsWithoutSchedule(id) ELSE comments
        /\ lastOp' = [op |-> "delete", table |-> "schedules", actor |-> actor,
                      valid |-> TRUE, ok |-> done]
        /\ UNCHANGED <<store, profiles, viewVars, authUsers, roles, polls,
                       votes, boot>>

\* handleCreatePoll in the browser of `actor`: body "" stands for a form
\* without a question or with fewer than two options. The row gets its id
\* from the server.
HandleCreatePoll(actor, body) ==
    LET filled == body # ""
        done == filled /\ ManagePollsPolicy(actor)
    IN  /\ done => PollIds \ Ids(polls) # {}
        /\ polls' = IF done
                    THEN polls \cup {[id |-> CHOOSE id \in PollIds \ Ids(polls) :
                                                TRUE,
                                       body |-> body]}
                    ELSE polls
        /\ toasts' = toasts \cup {IF done THEN SuccessToast ELSE ErrorToast}
        /\ lastOp' = [op |-> "create", table |-> "polls", actor |-> actor,
                      valid |-> filled, ok |-> done]
        /\ UNCHANGED <<noteVars, store, profiles, user, activeChat, showChatList,
                       messages, newMessage, members, pending, memPending,
                       sub, feed, pfeed, now, sends, authUsers, roles,
                       schedules, comments, votes, boot>>

\* handleCreateSchedule in the browser of `actor`: body "" stands for a form
\* with a required field left empty
HandleCreateSchedule(actor, body) ==
    LET filled == body # ""
        done == filled /\ ManageSchedulesPolicy(actor)
    IN  /\ done => ScheduleIds \ Ids(schedules) # {}
        /\ schedules' =
               IF done
               THEN schedules \cup
                        {[id |-> CHOOSE id \in ScheduleIds \ Ids(schedules) :
                                     TRUE,
                          body |-> body]}
               ELSE schedules
        /\ toasts' = toasts \cup {IF done THEN SuccessToast ELSE ErrorToast}
        /\ lastOp' = [op |-> "create", table |-> "schedules", actor |-> actor,
                      valid |-> filled, ok |-> done]
        /\ UNCHANGED <<noteVars, store, profiles, user, activeChat, showChatList,
                       messages, newMessage, members, pending, memPending,
                       sub, feed, pfeed, now, sends, authUsers, roles, polls,
                       comments, votes, boot>>

\* the rows a client can send for user_roles
RoleRows == [user_id : Users, role : {Admin, Member}]

\* insert(user_roles, row) by an authenticated identity
RoleInsert(actor, row) ==
    LET fits == RoleConstraints(authUsers, roles, row)
        done == ManageRolesPolicy(actor) /\ fits
    IN  /\ roles' = IF done THEN roles \cup {row} ELSE roles
        /\ lastOp' = [op |-> "insert", table |-> "user_roles",
                      actor |-> actor, row |-> row, valid |-> fits,
                      ok |-> done]
        /\ UNCHANGED <<store, profiles, viewVars, authUsers, schedules, polls,
                       comments, votes, boot>>

\* update(user_roles) of the row old to the row new by an authenticated
\* identity
RoleUpdate(actor, old, new) ==
    LET fits == RoleConstraints(authUsers, roles \ {old}, new)
        done == ManageRolesPolicy(actor) /\ fits
    IN  /\ old \in roles
        /\ new # old
        /\ roles' = IF done THEN (roles \ {old}) \cup {new} ELSE roles
        /\ lastOp' = [op |-> "update", table |-> "user_roles",
                      actor |-> actor, row |-> new, valid |-> fits,
                      ok |-> done]
        /\ UNCHANGED <<store, profiles, viewVars, authUsers, schedules, polls,
                       comments, votes, boot>>

\* delete(user_roles) of a row by an authenticated identity
RoleDelete(actor, row) ==
    LET done == ManageRolesPolicy(actor)
    IN  /\ row \in roles
        /\ roles' = IF done THEN roles \ {row} ELSE roles
        /\ lastOp' = [op |-> "delete", table |-> "user_roles",
                      actor |-> actor, row |-> row, valid |-> TRUE,
                      ok |-> done]
        /\ UNCHANGED <<store, profiles, viewVars, authUsers, schedules, polls,
                       comments, votes, boot>>

NextRoles ==
    \/ \E actor \in Accounts, row \in CatalogRows(PollIds) :
           PollInsert(actor, row)
    \/ \E actor \in Accounts, id \in PollIds, body \in Bodies :
           PollUpdate(actor, id, body)
    \/ \E actor \in Accounts, id \in PollIds : PollDelete(actor, id)
    \/ \E actor \in Accounts, row \in CatalogRows(ScheduleIds) :
           ScheduleInsert(actor, row)
    \/ \E actor \in Accounts, id \in ScheduleIds, body \in Bodies :
           ScheduleUpdate(actor, id, body)
    \/ \E actor \in Accounts, id \in ScheduleIds : ScheduleDelete(actor, id)
    \/ \E actor \in Accounts, body \in Bodies \cup {""} :
           HandleCreatePoll(actor, body)
    \/ \E actor \in Accounts, body \in Bodies \cup {""} :
           HandleCreateSchedule(actor, body)
    \/ \E actor \in Accounts, row \in RoleRows : RoleInsert(actor, row)
    \/ \E actor \in Accounts, old \in RoleRows, new \in RoleRows :
           RoleUpdate(actor, old, new)
    \/ \E actor \in Accounts, row \in RoleRows : RoleDelete(actor, row)

SpecRoles == Init /\ [][NextRoles]_vars

\* C15: a write to polls or schedules is accepted only if the acting identity
\* holds the admin role when it is made, and is accepted for an admin whenever
\* the form is filled and the primary key is free; a write by anybody else
\* leaves polls, schedules and the rows that hang on them as they were.
C15_AdminWritesCatalog ==
    [][lastOp'.table \in {"polls", "schedules"} =>
         LET admin == \E r \in roles :
                          r.user_id = lastOp'.actor /\ r.role = Admin
         IN  /\ lastOp'.ok => admin
             /\ (admin /\ lastOp'.valid) => lastOp'.ok
             /\ ~admin => /\ polls' = polls
                          /\ schedules' = schedules
                          /\ comments' = comments
                          /\ votes' = votes
             /\ (lastOp'.ok /\ lastOp'.op \in {"insert", "create", "delete"})
                => (polls' # polls \/ schedules' # schedules)]_vars

\* a member has sent an insert for a free poll id directly and it was refused
C15_Witness ==
    /\ lastOp.op = "insert"
    /\ lastOp.table = "polls"
    /\ has_role(lastOp.actor, Member)
    /\ ~has_role(lastOp.actor, Admin)
    /\ lastOp.valid
    /\ ~lastOp.ok
    /\ polls = {}

\* C16: a write to user_roles is accepted only if the acting identity holds
\* the admin role when it is made, and is accepted for an admin whenever the
\* unique key and the foreign key hold; a write by anybody else leaves
\* user_roles as it was.
C16_AdminWritesRoles ==
    [][lastOp'.table = "user_roles" =>
         LET admin == \E r \in roles :
                          r.user_id = lastOp'.actor /\ r.role = Admin
         IN  /\ lastOp'.ok => admin
             /\ (admin /\ lastOp'.valid) => lastOp'.ok
             /\ ~admin => roles' = roles
             /\ lastOp'.ok => roles' # roles]_vars

\* a member has tried to give itself the admin role and was refused
C16_Witness ==
    /\ lastOp.op = "insert"
    /\ lastOp.table = "user_roles"
    /\ lastOp.row = [user_id |-> lastOp.actor, role |-> Admin]
    /\ lastOp.valid
    /\ ~lastOp.ok
    /\ has_role(lastOp.actor, Member)
    /\ ~has_role(lastOp.actor, Admin)

\* the view of a signed-in user, its own writes and its messages channel
NextView ==
    \/ SubscribeAck("messages")
    \/ \E r \in memPending : MembersResolve(r)
    \/ \E f \in pending : FetchResolve(f)
    \/ MessageEvent
    \/ \E chatId \in {Group} \cup Users : OpenChat(chatId)
    \/ GoBackToList
    \/ \E text \in Drafts : TypeText(text)
    \/ \E t \in ClockReadings : SendMessage(t)
    \/ \E k \in 1..MaxSends, actor \in Users \cup {Null} : WriteArrive(k, actor)
    \/ \E k \in 1..MaxSends : WriteLost(k)

SpecView == Init /\ [][NextView]_vars

\* C3: a fetch issued under one channel that resolves while another channel
\* is active is discarded: applying it leaves the message list as it was.
C3_StaleFetchDiscarded ==
    [][\A f \in pending :
          (f.chan # activeChat /\ FetchResolve(f)) => messages' = messages]_vars

\* C4: in every state every entry of the message list passes the Channel
\* Resolver filter of the active channel.
C4_ListBelongsToActiveChat ==
    \A j \in 1..Len(messages) : ChannelFilter(activeChat, Me, messages[j])

\* C6 as stated: when the re-fetch triggered by the event of an accepted
\* send's row is applied, the list holds exactly one entry with the row's
\* server id and none with the send's temporary id.
C6_ConfirmedOnceAfterRefetch ==
    [][\A f \in pending, k \in 1..Len(sends) :
          (/\ f.trig > 0
           /\ sends[k].id = ServerId(f.trig)
           /\ FetchResolve(f))
          => /\ Cardinality({j \in 1..Len(messages') :
                                messages'[j].id = sends[k].id}) = 1
             /\ \A j \in 1..Len(messages') : messages'[j].id # sends[k].temp]_vars

\* C6 amended: the same, for a re-fetch issued while the channel the message
\* was sent in is the active channel.
C6_ConfirmedOnceInItsChannel ==
    [][\A f \in pending, k \in 1..Len(sends) :
          (/\ f.trig > 0
           /\ sends[k].id = ServerId(f.trig)
           /\ f.chan = (IF sends[k].row.is_group_message THEN Group
                        ELSE sends[k].row.receiver_id)
           /\ FetchResolve(f))
          => /\ Cardinality({j \in 1..Len(messages') :
                                messages'[j].id = sends[k].id}) = 1
             /\ \A j \in 1..Len(messages') : messages'[j].id # sends[k].temp]_vars

\* the re-fetch triggered by the event of a stored direct message has been
\* applied and the list shows the stored row
C6_Witness ==
    /\ lastOp.op = "fetch"
    /\ \E k \in 1..Len(sends) :
           /\ sends[k].state = "stored"
           /\ sends[k].id = ServerId(lastOp.trig)
           /\ ~sends[k].row.is_group_message
           /\ activeChat = sends[k].row.receiver_id
           /\ \E j \in 1..Len(messages) : messages[j].id = sends[k].id
           /\ \A j \in 1..Len(messages) : messages[j].id # sends[k].temp

\* C7: once the write of a send has failed, its provisional entry stays in
\* the list, unchanged and in place, at every step that is not an applied
\* fetch, and an applied fetch leaves no entry with its temporary id.
C7_FailedSendStaysUntilRefetch ==
    [][\A k \in 1..Len(sends') :
          sends'[k].state \in {"policy", "network"} =>
              \A j \in 1..Len(messages) :
                  messages[j].id = sends'[k].temp =>
                      IF \E f \in pending : FetchResolve(f)
                      THEN \A i \in 1..Len(messages') :
                               messages'[i].id # sends'[k].temp
                      ELSE /\ j <= Len(messages')
                           /\ messages'[j] = messages[j]]_vars

\* the write of a send has failed and its provisional entry is in the list
C7_Witness ==
    \E k \in 1..Len(sends) :
        /\ sends[k].state \in {"policy", "network"}
        /\ \E j \in 1..Len(messages) :
               /\ messages[j].id = sends[k].temp
               /\ messages[j].content = sends[k].row.content

\* C8: a send whose write the store rejected has produced a failure toast.
C8_PolicyErrorSurfaced ==
    \A k \in 1..Len(sends) :
        sends[k].state = "policy" =>
            \E t \in toasts : t.variant = "destructive"

\* the input row of the view across a sign-out, with its fetches and writes
NextSend ==
    \/ SignOut
    \/ \E r \in memPending : MembersResolve(r)
    \/ \E f \in pending : FetchResolve(f)
    \/ \E chatId \in {Group} \cup Users : OpenChat(chatId)
    \/ GoBackToList
    \/ \E text \in Drafts : TypeText(text)
    \/ \E t \in ClockReadings : SendMessage(t)
    \/ \E k \in 1..MaxSends, actor \in Users \cup {Null} : WriteArrive(k, actor)

SpecSend == Init /\ [][NextSend]_vars

C9_RefusedSendChangesNothing ==
    [][((\E t \in ClockReadings : SendMessage(t))
        /\ (Trim(newMessage) = <<>> \/ user = Null))
       => /\ messages' = messages
          /\ newMessage' = newMessage
          /\ sends' = sends
          /\ store' = store
          /\ pending' = pending]_vars

\* a send of a whitespace-only draft has been refused
C9_Witness ==
    /\ lastOp = [op |-> "send", ok |-> FALSE]
    /\ newMessage # <<>>
    /\ Trim(newMessage) = <<>>

\* ------------------------------------------------------- notifications

\* the view, on the group chat, while the user answers the permission prompt
\* and messages of the user, of the other members and of a new member arrive
NextNotify ==
    \/ SubscribeAck("messages")
    \/ \E result \in {"granted", "denied"} : RequestPermission(result)
    \/ \E r \in memPending : MembersResolve(r)
    \/ \E f \in pending : FetchResolve(f)
    \/ MessageEvent
    \/ OpenChat(Group)
    \/ \E id \in Users : ProfileInsert(id)
    \/ \E peer \in Users, target \in {Group} \cup Users : PeerSend(peer, target)
    \/ TypeText(<<" ", "a", " ">>)
    \/ SendMessage(now)
    \/ \E k \in 1..MaxSends : WriteArrive(k, Me)

SpecNotify == Init /\ [][NextNotify]_vars

\* C21: the handler of a message insert event raises exactly one
\* notification, for the row of the event, when the row is visible to the
\* user, its sender is not the user and the permission is granted; it raises
\* none when one of the three fails, and no other step raises one.
C21_OneNotificationPerForeignEvent ==
    [][IF feed # <<>> /\ feed' = Tail(feed) /\ sub' = sub
       THEN LET m == store[Head(feed)]
            IN  IF /\ SelectPolicy(user, m)
                   /\ m.sender_id # user
                   /\ permission = "granted"
                THEN /\ Len(notified') = Len(notified) + 1
                     /\ SubSeq(notified', 1, Len(notified)) = notified
                     /\ notified'[Len(notified')].row = Head(feed)
                ELSE notified' = notified
       ELSE notified' = notified]_vars

\* two events were handled with the permission granted, the user's own
\* message and a message of another member: one notification, for the latter
C21_Witness ==
    /\ permission = "granted"
    /\ Len(store) = 2
    /\ feed = <<>>
    /\ \E f \in pending : f.trig = 1
    /\ \E f \in pending : f.trig = 2
    /\ \E n \in 1..2 : store[n].sender_id = Me
    /\ Len(notified) = 1
    /\ store[notified[1].row].sender_id # Me

\* ------------------------------------------------ teardown and re-fetch

\* the view with its two channels while other members write and a new member
\* joins
NextRefetch ==
    \/ \E scope \in {"messages", "members"} : SubscribeAck(scope)
    \/ \E r \in memPending : MembersResolve(r)
    \/ \E f \in pending : FetchResolve(f)
    \/ MessageEvent
    \/ ProfileEvent
    \/ \E chatId \in {Group, "u2"} : OpenChat(chatId)
    \/ \E id \in Users : ProfileInsert(id)
    \/ \E peer \in Users, target \in {Group} \cup Users : PeerSend(peer, target)

SpecRefetch == Init /\ [][NextRefetch]_vars

\* C23: the handler of a message insert event whose row passes the filter
\* of the active channel issues a fetch of the message list for that channel,
\* the handler of a profiles insert event issues a fetch of the member
\* list, and neither handler changes the list itself.
C23_EventTriggersFullRefetch ==
    [][/\ (feed # <<>> /\ feed' = Tail(feed) /\ sub' = sub)
           => /\ ChannelFilter(activeChat, user, store[Head(feed)])
                  => /\ FetchReq(activeChat, Head(feed)) \notin pending
                     /\ pending' = pending \cup {FetchReq(activeChat, Head(feed))}
              /\ messages' = messages
              /\ members' = members
       /\ (pfeed > 0 /\ pfeed' = pfeed - 1 /\ sub' = sub)
           => /\ MemberReq \in memPending'
              /\ messages' = messages
              /\ members' = members]_vars

\* the events of a new member were handled: the fetch of the message list
\* issued for the join row and the fetch of the member list are in flight
C23_Witness ==
    /\ lastOp.op = "profile_event"
    /\ MemberReq \in memPending
    /\ feed = <<>>
    /\ \E f \in pending :
           /\ f.trig # 0
           /\ f.chan = activeChat
           /\ ChannelFilter(activeChat, Me, store[f.trig])
           /\ store[f.trig].message_type = "system"

\* the life of the two channels: the view is mounted and left, the user
\* signs out and in, switches channel and answers the permission prompt, the
\* member list is fetched again and again
NextLifecycle ==
    \/ \E scope \in {"messages", "members"} : SubscribeAck(scope)
    \/ \E r \in memPending : MembersResolve(r)
    \/ \E f \in pending : FetchResolve(f)
    \/ \E chatId \in {Group} \cup Users : OpenChat(chatId)
    \/ GoBackToList
    \/ \E result \in {"granted", "denied"} : RequestPermission(result)
    \/ SignOut
    \/ SignIn
    \/ Mount
    \/ Unmount

SpecLifecycle == Init /\ [][NextLifecycle]_vars

\* C24: per scope at most one channel is open, a channel is open exactly
\* while the scope is subscribing or active, none is open while the view is
\* left or has no user, and a scope becomes active only from subscribing and
\* leaves unsubscribed only to subscribing; every run of the effect that
\* opens a channel has removed the one it replaces.
C24_OneSubscriptionPerScope ==
    /\ [](\A scope \in {"messages", "members"} :
             /\ opened[scope] \in {0, 1}
             /\ opened[scope] = 1 <=> sub[scope] \in {"subscribing", "active"}
             /\ (~mounted \/ user = Null) => opened[scope] = 0)
    /\ [][\A scope \in {"messages", "members"} :
             /\ (sub'[scope] = "active" /\ sub[scope] # "active")
                    => sub[scope] = "subscribing" /\ opened' = opened
             /\ (sub[scope] = "none" /\ sub'[scope] # "none")
                    => sub'[scope] = "subscribing" /\ opened'[scope] = 1
             /\ (sub'[scope] = "subscribing" /\ sub[scope] = "active")
                    => opened'[scope] = 1]_vars

\* the view was left and mounted again, the permission was granted and the
\* channel switched: both channels are acknowledged, one of each is open
C24_Witness ==
    /\ lastOp.op = "unmount"
    /\ mounted
    /\ permission = "granted"
    /\ activeChat = "u2"
    /\ sub = [messages |-> "active", members |-> "active"]
    /\ opened = [messages |-> 1, members |-> 1]

\* the channel a stored row belongs to, for the identity that reads it
ChannelsOf(m, uid) ==
    {chat \in ({Group} \cup Users) \ {uid} : ChannelFilter(chat, uid, m)}

\* members send to the group and to each other, the user among them
NextResolver ==
    \/ \E r \in memPending : MembersResolve(r)
    \/ \E f \in pending : FetchResolve(f)
    \/ \E chatId \in {Group} \cup Users : OpenChat(chatId)
    \/ TypeText(<<" ", "a", " ">>)
    \/ SendMessage(now)
    \/ \E k \in 1..MaxSends : WriteArrive(k, Me)
    \/ \E id \in Users : ProfileInsert(id)
    \/ \E peer \in Users, target \in {Group} \cup Users : PeerSend(peer, target)

SpecResolver == Init /\ [][NextResolver]_vars

\* C25: the row a send stamps for the group is a group row, the row it
\* stamps for peer P is a direct row with receiver P; a stored group row is
\* in the group channel of every identity and in no direct channel; a stored
\* direct row from U to P is in U's channel P and in P's channel U and in no
\* other channel of any identity: every row is in exactly one channel of
\* each identity that takes part in it, and in none of the others'.
C25_StampAndFilterAgree ==
    /\ \A k \in 1..Len(sends) :
           LET r == sends[k].row
           IN  /\ r.is_group_message = (r.receiver_id = Null)
               /\ r.receiver_id # r.sender_id
               /\ r.is_group_message
                      => ChannelsOf(r, r.sender_id) = {Group}
               /\ ~r.is_group_message
                      => /\ ChannelsOf(r, r.sender_id) = {r.receiver_id}
                         /\ ChannelsOf(r, r.receiver_id) = {r.sender_id}
    /\ \A n \in 1..Len(store), V \in Users :
           LET m == store[n]
           IN  ChannelsOf(m, V) =
                   IF m.is_group_message THEN {Group}
                   ELSE IF V = m.sender_id THEN {m.receiver_id}
                   ELSE IF V = m.receiver_id THEN {m.sender_id}
                   ELSE {}
    /\ [][Len(sends') > Len(sends)
            => LET r == sends'[Len(sends')].row
               IN  /\ r.is_group_message = (activeChat = Group)
                   /\ r.receiver_id = IF activeChat = Group THEN Null
                                      ELSE activeChat
                   /\ ChannelFilter(activeChat, user, r)]_vars

\* the user's direct message to u2 is stored next to a group message of
\* another member
C25_Witness ==
    /\ \E k \in 1..Len(sends) :
           /\ sends[k].state = "stored"
           /\ sends[k].row.receiver_id = "u2"
    /\ \E n \in 1..Len(store) :
           /\ store[n].is_group_message
           /\ store[n].sender_id # Me

\* C26: the list never holds more provisional entries with one temporary id
\* than there are sends with that id whose confirmed row is not in the list,
\* so never the provisional entry and the confirmed row of one send; and a
\* step that brings a confirmed row into the list leaves a list without any
\* provisional entry.
C26_ConfirmedReplacesProvisional ==
    /\ [](\A t \in ClockReadings :
             LET held == {j \in 1..Len(messages) : messages[j].id = TempId(t)}
                 open == {k \in 1..Len(sends) :
                             /\ sends[k].temp = TempId(t)
                             /\ \A j \in 1..Len(messages) :
                                    messages[j].id # sends[k].id}
             IN  Cardinality(held) <= Cardinality(open))
    /\ [][\A k \in 1..Len(sends') :
             (/\ \E j \in 1..Len(messages') : messages'[j].id = sends'[k].id
              /\ \A j \in 1..Len(messages) : messages[j].id # sends'[k].id)
                 => \A j \in 1..Len(messages') : ~IsTempId(messages'[j].id)]_vars

\* the fetch of the mount effect resolved after the write of a send to the
\* group: the list is the confirmed row alone
C26_Witness ==
    /\ lastOp = [op |-> "fetch", trig |-> 0]
    /\ Len(messages) = 1
    /\ \E k \in 1..Len(sends) :
           /\ sends[k].state = "stored"
           /\ sends[k].row.is_group_message
           /\ messages[1].id = sends[k].id

\* C27: when the last fetch in flight resolves for the active channel, with
\* no event waiting and no write in flight, the list is the stored rows of
\* the channel; in particular a list that already was the stored rows stays
\* so when an earlier-issued fetch resolves last.
C27_ListConvergesToStore ==
    [][\A f \in pending :
          (/\ FetchResolve(f)
           /\ f.chan = activeChat
           /\ pending' = {}
           /\ feed = <<>>
           /\ sub.messages = "active"
           /\ \A k \in 1..Len(sends) : sends[k].state = "stored"
           /\ messages = FetchResult(activeChat, Me, Len(store)))
              => messages' = FetchResult(activeChat, Me, Len(store))]_vars

\* C22: after a channel switch nothing of the released view runs or writes:
\* events are queued for an open subscription only, and while the channel
\* stays the same the list changes only by a send or by the result of a
\* fetch that was issued for the active channel.
C22_ReleasedViewNotUpdated ==
    /\ [](feed # <<>> => sub.messages = "active")
    /\ [][(messages' # messages /\ activeChat' = activeChat /\ sends' = sends)
            => \E f \in pending \ pending' : f.chan = activeChat]_vars

\* ---------------------------------------------------- the view left alone

\* the row the ChatPanel of `peer` inserts for `target`
PeerRow(peer, target) ==
    [content |-> PeerContent, sender_id |-> peer,
     receiver_id |-> StampReceiver(target),
     is_group_message |-> StampGroup(target), message_type |-> "user"]

\* what the store may hold when the view is mounted: messages of u2 to the
\* group and to the user
EarlierStores ==
    UNION {[1..n -> {PeerRow("u2", Group), PeerRow("u2", Me)}] : n \in 0..MaxStore}

\* the view just mounted for a signed-in user, over a store that holds
\* earlier messages and with the notification permission as the browser has it
InitMounted ==
    /\ \E rows \in EarlierStores :
           store = [n \in 1..Len(rows) |-> StoredRow(rows[n], n)]
    /\ permission \in {"default", "granted", "denied"}
    /\ profiles = InitialProfiles
    /\ user = Me
    /\ activeChat = Group
    /\ showChatList = TRUE
    /\ messages = <<>>
    /\ newMessage = <<>>
    /\ members = {}
    /\ pending = {FetchReq(Group, 0)}
    /\ memPending = {MemberReq}
    /\ sub = [messages |-> "subscribing", members |-> "subscribing"]
    /\ feed = <<>>
    /\ pfeed = 0
    /\ now = 0
    /\ toasts = PermissionToast
    /\ sends = <<>>
    /\ lastOp = [op |-> "none"]
    /\ authUsers = InitialUsers
    /\ roles = InitialRoles
    /\ schedules = {[id |-> "s1", body |-> "b1"]}
    /\ polls = {[id |-> "p1", body |-> "b1"]}
    /\ comments = <<>>
    /\ votes = <<>>
    /\ boot = [i \in Invocations |-> [pc |-> "done", uid |-> Null]]
    /\ notified = <<>>
    /\ opened = [messages |-> 1, members |-> 1]
    /\ mounted = TRUE

\* no user action and no event: the responses and acknowledgements arrive
NextIdle ==
    \/ \E scope \in {"messages", "members"} : SubscribeAck(scope)
    \/ \E r \in memPending : MembersResolve(r)
    \/ \E f \in pending : FetchResolve(f)

\* every request is answered and every subscribe() is acknowledged
FairIdle ==
    /\ WF_vars(SubscribeAck("messages"))
    /\ WF_vars(SubscribeAck("members"))
    /\ WF_vars(\E r \in memPending : MembersResolve(r))
    /\ WF_vars(\E f \in pending : FetchResolve(f))

SpecIdle == InitMounted /\ [][NextIdle]_vars /\ FairIdle

\* C28: left alone, the mounted view comes to rest: from some point on no
\* fetch is in flight and both channels stay open.
C28_ViewQuiesces ==
    <>[](/\ pending = {}
         /\ memPending = {}
         /\ sub = [messages |-> "active", members |-> "active"])

\* ------------------------------------------------------ a second send

\* the provisional entry of an earlier send, made in `chat` at reading t
EarlierEntry(chat, t) ==
    [id |-> TempId(t), content |-> <<"a">>, sender_id |-> Me,
     receiver_id |-> StampReceiver(chat), is_group_message |-> StampGroup(chat),
     message_type |-> "user", created_at |-> t]

\* the view with a chat open after a send whose write did not reach the
\* store: its provisional entry is in the list, the input is empty again and
\* the effect has run for the member list; the history of sends starts here
InitResend ==
    /\ \E chat \in {Group, "u2"}, t \in ClockReadings :
           /\ activeChat = chat
           /\ now = t
           /\ messages = <<EarlierEntry(chat, t)>>
    /\ permission = "default"
    /\ store = <<>>
    /\ profiles = InitialProfiles
    /\ user = Me
    /\ showChatList = FALSE
    /\ newMessage = <<>>
    /\ members = {"u2"}
    /\ pending = {FetchReq(activeChat, 0)}
    /\ memPending = {MemberReq}
    /\ sub = [messages |-> "subscribing", members |-> "subscribing"]
    /\ feed = <<>>
    /\ pfeed = 0
    /\ toasts = PermissionToast
    /\ sends = <<>>
    /\ lastOp = [op |-> "none"]
    /\ authUsers = InitialUsers
    /\ roles = InitialRoles
    /\ schedules = {[id |-> "s1", body |-> "b1"]}
    /\ polls = {[id |-> "p1", body |-> "b1"]}
    /\ comments = <<>>
    /\ votes = <<>>
    /\ boot = [i \in Invocations |-> [pc |-> "done", uid |-> Null]]
    /\ notified = <<>>
    /\ opened = [messages |-> 1, members |-> 1]
    /\ mounted = TRUE

SpecResend == InitResend /\ [][NextView]_vars

\* C30: the entries of the message list have pairwise distinct ids.
C30_ListIdsDistinct ==
    \A i, j \in 1..Len(messages) :
        i # j => messages[i].id # messages[j].id

\* ------------------------------------------- setup-admin under failures

\* setup-admin, lines 56-73, when the store answers the role insert with an
\* error (connection lost, statement timeout): insert() resolves to {error},
\* nothing is thrown, the handler goes on to the success response
BootInsertsFail(i) ==
    /\ boot[i].pc = "created"
    /\ boot' = [boot EXCEPT ![i].pc = "done"]
    /\ lastOp' = [op |-> "boot_inserts", i |-> i]
    /\ UNCHANGED <<store, profiles, viewVars, authUsers, roles, schedules, polls,
                   comments, votes>>

NextBootFaults ==
    \/ NextBoot
    \/ \E i \in Invocations : BootInsertsFail(i)

SpecBootFaults == InitDeployed /\ [][NextBootFaults]_vars

\* C29: an invocation that has answered 'Admin user created!' has left an
\* account that holds the admin role; and an invocation that answers 'Admin
\* already exists' while no other invocation is under way does so in a
\* project where some identity holds the admin role.
C29_SuccessMeansAdminRole ==
    /\ [](\A i \in Invocations :
             (boot[i].pc = "done" /\ boot[i].uid # Null)
                => /\ \E u \in authUsers : u.id = boot[i].uid
                   /\ has_role(boot[i].uid, Admin))
    /\ [][\A i \in Invocations :
             (/\ boot[i].pc = "idle"
              /\ boot'[i].pc = "done"
              /\ \A j \in Invocations \ {i} : boot[j].pc \in {"idle", "done"})
                 => \E r \in roles : r.role = Admin]_vars

\* the view and the rest of the system
Next ==
    \/ NextView
    \/ \E result \in {"granted", "denied"} : RequestPermission(result)
    \/ Mount
    \/ Unmount
    \/ SignOut
    \/ SignIn
    \/ \E f \in pending : FetchFail(f)
    \/ SubscribeAck("members")
    \/ ProfileEvent
    \/ \E peer \in Users, target \in {Group} \cup Users : PeerSend(peer, target)
    \/ NextStore
    \/ NextFeed
    \/ NextBootFaults
    \/ NextRoles

Spec == Init /\ [][Next]_vars

====
